---- MODULE Spec2Model ----
(***************************************************************************)
(* A model of the "Truncation errors in linear fit calculations" notebook  *)
(* (src/unnamed/part_001, with its earlier copy src/unnamed/part_000).     *)
(*                                                                         *)
(* The notebook's numbers are numpy float64 values.  They are modelled     *)
(* bit for bit: a finite value is sign * m * 2^e with m an arbitrary size  *)
(* natural number (a sequence of 15 bit limbs, least significant first),   *)
(* and every arithmetic operation rounds its exact result to 53            *)
(* significant bits, to nearest, ties to even, as IEEE 754 does.  The      *)
(* exponent range is not bounded: no value of the model comes near         *)
(* overflow or the subnormal range.  The sign of a zero is not kept.       *)
(*                                                                         *)
(* The claims that speak of the formulas "in exact arithmetic" are checked *)
(* under the second arithmetic of the model, exact rationals.              *)
(***************************************************************************)
EXTENDS Integers, Sequences, FiniteSets, TLC

(***************************************************************************)
(* Arbitrary size naturals: <<>> is 0, no leading (most significant) zero  *)
(* limb.                                                                   *)
(***************************************************************************)
Base == 2^15

RECURSIVE BitsOf(_)
BitsOf(v) == IF v = 0 THEN 0 ELSE 1 + BitsOf(v \div 2)

\* the bits of a limb
LimbBits == BitsOf(Base) - 1

Pow2[i \in 0..15] == IF i = 0 THEN 1 ELSE 2 * Pow2[i - 1]

RECURSIVE NFromInt(_)
NFromInt(i) == IF i = 0 THEN <<>> ELSE <<i % Base>> \o NFromInt(i \div Base)

RECURSIVE NTrim(_)
NTrim(a) ==
    IF a = <<>> THEN a
    ELSE IF a[Len(a)] = 0 THEN NTrim(SubSeq(a, 1, Len(a) - 1))
    ELSE a

RECURSIVE NAddC(_, _, _)
NAddC(a, b, c) ==
    IF a = <<>> /\ b = <<>> THEN (IF c = 0 THEN <<>> ELSE <<c>>)
    ELSE IF b = <<>> /\ c = 0 THEN a
    ELSE IF a = <<>> /\ c = 0 THEN b
    ELSE LET x == IF a = <<>> THEN 0 ELSE Head(a)
             y == IF b = <<>> THEN 0 ELSE Head(b)
             s == x + y + c
         IN  <<s % Base>> \o NAddC(IF a = <<>> THEN a ELSE Tail(a),
                                   IF b = <<>> THEN b ELSE Tail(b),
                                   s \div Base)

NAdd(a, b) == NAddC(a, b, 0)

\* a - b for a >= b, before the leading zero limbs are removed
RECURSIVE NSubB(_, _, _)
NSubB(a, b, c) ==
    IF a = <<>> THEN <<>>
    ELSE IF b = <<>> /\ c = 0 THEN a
    ELSE LET y == IF b = <<>> THEN 0 ELSE Head(b)
             d == Head(a) - y - c
         IN  <<(d + Base) % Base>> \o NSubB(Tail(a),
                                            IF b = <<>> THEN b ELSE Tail(b),
                                            IF d < 0 THEN 1 ELSE 0)

NSub(a, b) == NTrim(NSubB(a, b, 0))

\* -1, 0, 1 as a < b, a = b, a > b
RECURSIVE NCmpAt(_, _, _)
NCmpAt(a, b, i) ==
    IF i = 0 THEN 0
    ELSE IF a[i] < b[i] THEN -1
    ELSE IF a[i] > b[i] THEN 1
    ELSE NCmpAt(a, b, i - 1)

NCmp(a, b) ==
    IF Len(a) < Len(b) THEN -1
    ELSE IF Len(a) > Len(b) THEN 1
    ELSE NCmpAt(a, b, Len(a))

\* a * d + c for one limb d and a carry c
RECURSIVE NMulSmall(_, _, _)
NMulSmall(a, d, c) ==
    IF a = <<>> THEN (IF c = 0 THEN <<>> ELSE <<c>>)
    ELSE LET p == Head(a) * d + c
         IN  <<p % Base>> \o NMulSmall(Tail(a), d, p \div Base)

NLimbShift(a) == IF a = <<>> THEN a ELSE <<0>> \o a

RECURSIVE NMul(_, _)
NMul(a, b) ==
    IF a = <<>> \/ b = <<>> THEN <<>>
    ELSE NAdd(NMulSmall(a, Head(b), 0), NLimbShift(NMul(a, Tail(b))))

RECURSIVE NZeros(_)
NZeros(w) == IF w = 0 THEN <<>> ELSE <<0>> \o NZeros(w - 1)

\* a * 2^k
NShl(a, k) ==
    IF a = <<>> THEN a
    ELSE NZeros(k \div LimbBits) \o NMulSmall(a, Pow2[k % LimbBits], 0)

\* the limbs i..1 of a divided by d (one limb), r the remainder carried in
RECURSIVE NDivSmallAt(_, _, _, _)
NDivSmallAt(a, d, i, r) ==
    IF i = 0 THEN <<>>
    ELSE LET v == r * Base + a[i]
         IN  NDivSmallAt(a, d, i - 1, v % d) \o <<v \div d>>

\* a \div 2^k
NShr(a, k) ==
    LET w == k \div LimbBits
    IN  IF w >= Len(a) THEN <<>>
        ELSE LET h == SubSeq(a, w + 1, Len(a))
             IN  NTrim(NDivSmallAt(h, Pow2[k % LimbBits], Len(h), 0))

NBitLen(a) ==
    IF a = <<>> THEN 0 ELSE LimbBits * (Len(a) - 1) + BitsOf(a[Len(a)])

RECURSIVE ZerosOf(_)
ZerosOf(v) == IF v % 2 = 1 THEN 0 ELSE 1 + ZerosOf(v \div 2)

\* the number of trailing zero bits of a /= 0
RECURSIVE NTrailing(_)
NTrailing(a) ==
    IF Head(a) = 0 THEN LimbBits + NTrailing(Tail(a)) ELSE ZerosOf(Head(a))

NIsOdd(a) == a /= <<>> /\ Head(a) % 2 = 1

(***************************************************************************)
(* float64 values.                                                         *)
(***************************************************************************)
MantBits == 53

NaN == [k |-> "nan", s |-> 0, m |-> <<>>, e |-> 0]
Inf(s) == [k |-> "inf", s |-> s, m |-> <<>>, e |-> 0]
Zero == [k |-> "fin", s |-> 0, m |-> <<>>, e |-> 0]

IsFinite(a) == a.k = "fin" \/ a.k = "rat"
IsNaN(a) == a.k = "nan"

\* sign * m * 2^e for m with z trailing zero bits
Strip(s, m, e, z) == [k |-> "fin", s |-> s, m |-> NShr(m, z), e |-> e + z]

\* the one representation of sign * m * 2^e: m odd
Canon(s, m, e) == IF m = <<>> THEN Zero ELSE Strip(s, m, e, NTrailing(m))

\* to nearest, ties to even: c compares the bits dropped with one half
RoundsUp(q, c) == c = 1 \/ (c = 0 /\ NIsOdd(q))

\* sign * m * 2^(e - sh) rounded to its bits above the lowest sh: q
Nearest(s, m, e, sh, q) ==
    Canon(s,
          IF RoundsUp(q, NCmp(NSub(m, NShl(q, sh)), NShl(<<1>>, sh - 1)))
          THEN NAdd(q, <<1>>) ELSE q,
          e)

\* sign * m * 2^e rounded to MantBits bits, to nearest, ties to even
Round53(s, m, e) ==
    IF NBitLen(m) <= MantBits THEN Canon(s, m, e)
    ELSE Nearest(s, m, e + NBitLen(m) - MantBits, NBitLen(m) - MantBits,
                 NShr(m, NBitLen(m) - MantBits))

FromInt(i) == IF i < 0 THEN Canon(1, NFromInt(-i), 0) ELSE Canon(0, NFromInt(i), 0)

FNeg(a) == IF a.k = "nan" \/ a = Zero THEN a ELSE [a EXCEPT !.s = 1 - a.s]

\* sa * ma + sb * mb for signs that differ, c comparing ma with mb
Difference(sa, ma, sb, mb, c) ==
    IF c = 0 THEN <<0, <<>>>>
    ELSE IF c = 1 THEN <<sa, NSub(ma, mb)>>
    ELSE <<sb, NSub(mb, ma)>>

\* (sa * ma + sb * mb) * 2^e
SignedSum(sa, ma, sb, mb, e) ==
    IF sa = sb THEN <<sa, NAdd(ma, mb), e>>
    ELSE Difference(sa, ma, sb, mb, NCmp(ma, mb)) \o <<e>>

\* the sum of a and b with both mantissas at the exponent e
AlignedSum(a, b, e) == SignedSum(a.s, NShl(a.m, a.e - e), b.s, NShl(b.m, b.e - e), e)

\* the exact sum of two finite values, as <<sign, mantissa, exponent>>
ExactAdd(a, b) == AlignedSum(a, b, IF a.e < b.e THEN a.e ELSE b.e)

RoundSum(x) == Round53(x[1], x[2], x[3])

FAdd(a, b) ==
    IF a.k = "nan" \/ b.k = "nan" THEN NaN
    ELSE IF a.k = "inf" /\ b.k = "inf" THEN (IF a.s = b.s THEN a ELSE NaN)
    ELSE IF a.k = "inf" THEN a
    ELSE IF b.k = "inf" THEN b
    ELSE IF a.m = <<>> THEN b
    ELSE IF b.m = <<>> THEN a
    ELSE RoundSum(ExactAdd(a, b))

FSub(a, b) == FAdd(a, FNeg(b))

FMul(a, b) ==
    IF a.k = "nan" \/ b.k = "nan" THEN NaN
    ELSE IF a.k = "inf" \/ b.k = "inf"
         THEN (IF a = Zero \/ b = Zero THEN NaN ELSE Inf((a.s + b.s) % 2))
    ELSE IF a.m = <<>> \/ b.m = <<>> THEN Zero
    ELSE Round53((a.s + b.s) % 2, NMul(a.m, b.m), a.e + b.e)

\* the first guess of the quotient limb r \div d, for d with its top bit set
\* and r < d * Base: never too small, at most 2 too large
QHat(r, d) ==
    LET lr == Len(r)
        ld == Len(d)
    IN  IF lr < ld THEN 0
        ELSE IF lr = ld THEN r[lr] \div d[ld]
        ELSE LET g == (r[lr] * Base + r[lr - 1]) \div d[ld]
             IN  IF g > Base - 1 THEN Base - 1 ELSE g

RECURSIVE QFix(_, _, _)
QFix(r, d, q) ==
    IF q > 0 /\ NCmp(NMulSmall(d, q, 0), r) = 1 THEN QFix(r, d, q - 1) ELSE q

\* the quotient limb q of r by d put before the limbs qs, and what is left
DivLimb(r, d, qs, q) ==
    <<NTrim(<<q>> \o qs), IF q = 0 THEN r ELSE NSub(r, NMulSmall(d, q, 0))>>

\* one step of the long division: the next limb brought down to the
\* remainder of the limbs above it
DivStep(limb, d, up) ==
    DivLimb(NTrim(<<limb>> \o up[2]), d, up[1],
            QFix(NTrim(<<limb>> \o up[2]), d, QHat(NTrim(<<limb>> \o up[2]), d)))

\* long division of the limbs i..Len(n) of n by d: <<quotient, remainder>>
RECURSIVE NDivAt(_, _, _)
NDivAt(n, d, i) ==
    IF i > Len(n) THEN <<<<>>, <<>>>> ELSE DivStep(n[i], d, NDivAt(n, d, i + 1))

\* <<n \div d, some multiple of n % d>> for d /= 0
NDivMod(n, d) ==
    NDivAt(NShl(n, LimbBits - BitsOf(d[Len(d)])), NShl(d, LimbBits - BitsOf(d[Len(d)])), 1)

\* the quotient with one more bit, which says whether the division left a
\* remainder
Sticky(s, qr, e) == Round53(s, NAddC(qr[1], qr[1], IF qr[2] = <<>> THEN 0 ELSE 1), e)

\* the bits to shift a mantissa of la bits, for a quotient by one of lb
\* bits that has at least MantBits + 2 bits
QuotientShift(la, lb) == IF lb + MantBits + 3 > la THEN lb + MantBits + 3 - la ELSE 0

DivShifted(s, ma, ea, mb, eb, sh) == Sticky(s, NDivMod(NShl(ma, sh), mb), ea - eb - sh - 1)

\* sign * (ma * 2^ea) / (mb * 2^eb) for ma, mb /= 0, correctly rounded
DivRound(s, ma, ea, mb, eb) ==
    DivShifted(s, ma, ea, mb, eb, QuotientShift(NBitLen(ma), NBitLen(mb)))

FDiv(a, b) ==
    IF a.k = "nan" \/ b.k = "nan" THEN NaN
    ELSE IF a.k = "inf" THEN (IF b.k = "inf" THEN NaN ELSE Inf((a.s + b.s) % 2))
    ELSE IF b.k = "inf" THEN Zero
    ELSE IF b.m = <<>> THEN (IF a.m = <<>> THEN NaN ELSE Inf(a.s))
    ELSE IF a.m = <<>> THEN Zero
    ELSE DivRound((a.s + b.s) % 2, a.m, a.e, b.m, b.e)

(***************************************************************************)
(* Exact rationals n / d, d > 0, in lowest terms: the arithmetic of the    *)
(* formulas as written on paper.  A division by zero is undefined (NaN).   *)
(***************************************************************************)
RECURSIVE Gcd(_, _)
Gcd(a, b) == IF b = 0 THEN a ELSE Gcd(b, a % b)

Abs(i) == IF i < 0 THEN -i ELSE i

Rat(n, d) ==
    LET g == Gcd(Abs(n), Abs(d))
        z == IF d < 0 THEN -1 ELSE 1
    IN  [k |-> "rat", n |-> z * (n \div g), d |-> z * (d \div g)]

QAdd(a, b) == Rat(a.n * b.d + b.n * a.d, a.d * b.d)
QSub(a, b) == Rat(a.n * b.d - b.n * a.d, a.d * b.d)
QMul(a, b) == Rat(a.n * b.n, a.d * b.d)
QDiv(a, b) == IF b.n = 0 THEN NaN ELSE Rat(a.n * b.d, a.d * b.n)

(***************************************************************************)
(* The operators of the notebook's expressions, on either kind of value.   *)
(***************************************************************************)
Add(a, b) == IF a.k = "rat" /\ b.k = "rat" THEN QAdd(a, b) ELSE FAdd(a, b)
Sub(a, b) == IF a.k = "rat" /\ b.k = "rat" THEN QSub(a, b) ELSE FSub(a, b)
Mul(a, b) == IF a.k = "rat" /\ b.k = "rat" THEN QMul(a, b) ELSE FMul(a, b)
Div(a, b) == IF a.k = "rat" /\ b.k = "rat" THEN QDiv(a, b) ELSE FDiv(a, b)

\* the integer i as a value of the arithmetic ar
Num(ar, i) == IF ar = "exact" THEN Rat(i, 1) ELSE FromInt(i)

\* the integer i as a value of the kind of v
NumLike(v, i) == IF v.k = "rat" THEN Rat(i, 1) ELSE FromInt(i)

\* the float64 value next above (up) or next below the value r > 0
Beside(r, up) ==
    LET l  == NBitLen(r.m)
        mm == NShl(r.m, MantBits - l)
        ee == r.e - (MantBits - l)
    IN  IF up THEN Canon(0, NAdd(mm, <<1>>), ee)
        ELSE IF l = 1 THEN Canon(0, NSub(NShl(mm, 1), <<1>>), ee - 1)
        ELSE Canon(0, NSub(mm, <<1>>), ee)

\* d is at least 0.46 of g, for d and g as <<sign, mantissa, exponent>>:
\* the value d away from its nearest float64 value is at most 0.54 of
\* the gap g away from the next one
NearTie(d, g, e) ==
    NCmp(NMulSmall(NShl(d[2], d[3] - e), 50, 0), NMulSmall(NShl(g[2], g[3] - e), 23, 0)) >= 0

\* r, the float64 value nearest to an exact value, and o, the one on the
\* other side of it, when the exact value is that near the middle of the
\* two; d = r - exact, g = o - r
EitherSide(r, o, d, g) ==
    IF NearTie(d, g, IF d[3] < g[3] THEN d[3] ELSE g[3]) THEN {r, o} ELSE {r}

PowBeside(r, o, d) == EitherSide(r, o, d, ExactAdd(o, FNeg(r)))

\* d = r - exact: no choice when r is the exact value
PowRounded(r, d) ==
    IF d[2] = <<>> THEN {r} ELSE PowBeside(r, Beside(r, d[1] = 1), d)

\* the scalar power v**2, the values it can have.  Python's float ** and
\* the power of a numpy scalar are the C library's pow(v, 2.0), which is
\* not correctly rounded: its error is below 0.54 units in the last place,
\* so that it returns the float64 value nearest to v * v or, when v * v is
\* close to the middle of two values, the other of the two.  (The square
\* of an array, x**2, is np.square: the product, correctly rounded.)
PowTwo(v) ==
    IF v.k = "rat" THEN {QMul(v, v)}
    ELSE IF v.k /= "fin" \/ v.m = <<>> THEN {FMul(v, v)}
    ELSE PowRounded(FMul(v, v),
                    ExactAdd(FMul(v, v),
                             [k |-> "fin", s |-> 1, m |-> NMul(v.m, v.m), e |-> 2 * v.e]))

\* Raises that misses the division of a nonzero value by zero
RaisesInvalid(a, b, r) == r.k = "nan" /\ a.k /= "nan" /\ b.k /= "nan"

\* numpy's floating point error state: an operation on a and b whose result r
\* is not a number or infinite, when its operands were not, sets a flag
\* ("invalid value", "divide by zero") and numpy issues a RuntimeWarning
Raises(a, b, r) ==
    \/ r.k = "nan" /\ a.k /= "nan" /\ b.k /= "nan"
    \/ r.k = "inf" /\ a.k /= "inf" /\ b.k /= "inf"

\* the float64 value nearest to n / d
Nearest64(n, d) == IF n = <<>> THEN Zero ELSE DivRound(0, n, 0, d, 0)

\* the float64 value of the decimal literal ip.fp with p fraction digits: the
\* value nearest to (ip * 10^p + fp) / 10^p
Dec(ip, fp, p) ==
    Nearest64(NAdd(NMul(NFromInt(ip), NFromInt(10^p)), NFromInt(fp)), NFromInt(10^p))

(***************************************************************************)
(* numpy arrays: sequences of values; every operation makes a new array.   *)
(***************************************************************************)
ArrAddScalar(c, a) == [i \in 1..Len(a) |-> Add(c, a[i])]
ArrSubScalar(a, c) == [i \in 1..Len(a) |-> Sub(a[i], c)]
ArrMul(a, b) == [i \in 1..Len(a) |-> Mul(a[i], b[i])]
ArrSquare(a) == [i \in 1..Len(a) |-> Mul(a[i], a[i])]

\* res + a[i] + ... + a[n], added from left to right
RECURSIVE SumFrom(_, _, _, _)
SumFrom(a, i, n, res) ==
    IF i > n THEN res ELSE SumFrom(a, i + 1, n, Add(res, a[i]))

\* a[j] + a[j + 8] + ... : one of the eight running sums of the unrolled loop
RECURSIVE Lane(_, _, _, _, _)
Lane(a, j, b, nb, res) ==
    IF b >= nb THEN res ELSE Lane(a, j, b + 1, nb, Add(res, a[8 * b + j]))

\* the eight running sums, added as a tree
Tree8(r) ==
    Add(Add(Add(r[1], r[2]), Add(r[3], r[4])), Add(Add(r[5], r[6]), Add(r[7], r[8])))

\* the sum of the n <= 128 values of a, n >= 8: eight running sums over the
\* nb blocks of eight, then the values left over
Unrolled(a, n, nb) ==
    SumFrom(a, 8 * nb + 1, n, Tree8([j \in 1..8 |-> Lane(a, j, 1, nb, a[j])]))

\* numpy's pairwise summation of a float array (the add.reduce inner loop)
RECURSIVE PairwiseSum(_)
PairwiseSum(a) ==
    IF Len(a) < 8 THEN SumFrom(a, 1, Len(a), Zero)
    ELSE IF Len(a) <= 128 THEN Unrolled(a, Len(a), Len(a) \div 8)
    ELSE LET n2 == (Len(a) \div 2) - ((Len(a) \div 2) % 8)
         IN  Add(PairwiseSum(SubSeq(a, 1, n2)), PairwiseSum(SubSeq(a, n2 + 1, Len(a))))

\* np.sum(a)
Sum(a) ==
    IF a = <<>> THEN Zero
    ELSE IF a[1].k = "rat" THEN SumFrom(a, 2, Len(a), a[1])
    ELSE PairwiseSum(a)

\* np.average(a): the sum divided by the count; of an empty array not a
\* number, with a RuntimeWarning
Average(a) == IF a = <<>> THEN NaN ELSE Div(Sum(a), NumLike(a[1], Len(a)))

(***************************************************************************)
(* The notebook as a state machine: the kernel's module-level variables,   *)
(* and one action per code cell.  A notebook's cells can be run in any     *)
(* order and any number of times.  The two cells of definitions only (the  *)
(* imports, and def linear) have run; the last cell (scipy's curve_fit on  *)
(* the same data) is not modelled.                                         *)
(***************************************************************************)
VARIABLES
    arith,          \* the arithmetic: "float64" (the code) or "exact" (the formulas)
    given,          \* the data written in the cell "baseline = ...; _t = ...; ph = ..."
    defs,           \* the names defined in the kernel so far
    baseline,       \* the module-level variables, Undef while not in defs
    _t,
    t,
    ph,
    lfBaseline,
    lfNoBaseline,
    lf2Baseline,
    denom,
    compared,       \* what the comparison cell printed when it last ran to its end
    chart,          \* the curves the plot cell drew when it last ran to its end
    expanded,       \* what the expansion cell printed when it last ran to its end
    error,          \* how the cell run last ended: "none" or "NameError"
    last,           \* the cell run last, "none" in a fresh kernel
    top,            \* the top-level namespace of integers and references to arrays
    heap,           \* the numpy arrays alive, by reference
    printed,        \* the lines the cell run last printed
    mode            \* "notebook": cells, run in any order; "script": one run, top to bottom

vars == <<arith, given, defs, baseline, _t, t, ph, lfBaseline, lfNoBaseline,
          lf2Baseline, denom, compared, chart, expanded, error, last,
          top, heap, printed, mode>>

\* the state of the linear fit notebook only, and of the other notebooks only
fitVars == <<baseline, _t, t, ph, lfBaseline, lfNoBaseline, lf2Baseline, denom,
             compared, chart, expanded>>
scopeVars == <<top, heap, printed, mode>>

Undef == [k |-> "undef"]

(***************************************************************************)
(* The notebook's functions.  A call returns the function's result and its *)
(* effects: warn, whether numpy issued a RuntimeWarning during the call,   *)
(* and x, y, the argument arrays as the call leaves them (the arguments    *)
(* are references to the caller's arrays).                                 *)
(***************************************************************************)
linear(x, m, c) == Add(Mul(m, x), c)

ArrLinear(x, m, c) == [i \in 1..Len(x) |-> linear(x[i], m, c)]

\* return beta, alpha
Returned(x, y, xMean, yMean, num, den, beta, bx, alpha) ==
    [beta  |-> beta,
     alpha |-> alpha,
     warn  |-> \/ x = <<>>
               \/ Raises(num, den, beta)
               \/ Raises(beta, xMean, bx)
               \/ Raises(yMean, bx, alpha),
     x     |-> x,
     y     |-> y]

\* alpha = yMean - beta * xMean
Intercept(x, y, xMean, yMean, num, den, beta, bx) ==
    Returned(x, y, xMean, yMean, num, den, beta, bx, Sub(yMean, bx))

BetaTimesMean(x, y, xMean, yMean, num, den, beta) ==
    Intercept(x, y, xMean, yMean, num, den, beta, Mul(beta, xMean))

\* beta = num / den, and the two lines that follow it in both functions
Slope(x, y, xMean, yMean, num, den) ==
    BetaTimesMean(x, y, xMean, yMean, num, den, Div(num, den))

\* np.sum(dx**2), the denominator of LinearFit2
StableDenominator(dx) == Sum(ArrSquare(dx))

\* beta = np.sum(dx * dy) / np.sum(dx**2)
CentredSums(x, y, xMean, yMean, dx, dy) ==
    Slope(x, y, xMean, yMean, Sum(ArrMul(dx, dy)), StableDenominator(dx))

\* x - xMean and y - yMean
StableSlope(x, y, xMean, yMean) ==
    CentredSums(x, y, xMean, yMean, ArrSubScalar(x, xMean), ArrSubScalar(y, yMean))

\* the denominator of LinearFit without the square of the mean: x2Mean - xMean
NaiveDenominatorUnsquared(x, xMean) == {Sub(Average(ArrSquare(x)), xMean)}

\* x2Mean - xMean**2, the denominator of LinearFit: one value for each
\* value the power can have
NaiveDenominator(x, xMean) == {Sub(Average(ArrSquare(x)), p) : p \in PowTwo(xMean)}

\* beta = (xyMean - xMean * yMean) / (x2Mean - xMean**2)
NaiveSlope(x, y, xMean, yMean) ==
    {Slope(x, y, xMean, yMean, Sub(Average(ArrMul(x, y)), Mul(xMean, yMean)), den) :
         den \in NaiveDenominator(x, xMean)}

\* LinearFit with the centred sums of LinearFit2 in the place of its formula
LinearFitCentred(x, y) ==
    {CentredSums(x, y, Average(x), Average(y),
                 ArrSubScalar(x, Average(x)), ArrSubScalar(y, Average(y)))}

\* LinearFit dividing by the module-level denom of the expansion cell, when
\* that cell has defined it
LinearFitGlobal(x, y) ==
    IF "denom" \in defs
    THEN {Slope(x, y, Average(x), Average(y),
                Sub(Average(ArrMul(x, y)), Mul(Average(x), Average(y))), denom)}
    ELSE NaiveSlope(x, y, Average(x), Average(y))

\* LinearFit centring its argument in place (x -= xMean) before it fits
LinearFitInPlace(x, y) ==
    {[r EXCEPT !.x = ArrSubScalar(x, Average(x))] :
         r \in NaiveSlope(x, y, Average(x), Average(y))}

\* the results the call can have: one for each value of xMean**2
LinearFit(x, y) == NaiveSlope(x, y, Average(x), Average(y))

\* LinearFit2 with the sign in the intercept wrong: alpha = yMean + beta * xMean
PlusIntercept(r, yMean) == [r EXCEPT !.alpha = Sub(Add(yMean, yMean), r.alpha)]

LinearFit2Plus(x, y) ==
    PlusIntercept(StableSlope(x, y, Average(x), Average(y)), Average(y))

\* LinearFit2 with the sums not divided: beta = np.sum(dx * dy) * np.sum(dx**2)
LinearFit2Times(x, y) ==
    [StableSlope(x, y, Average(x), Average(y)) EXCEPT
        !.beta = Mul(Sum(ArrMul(ArrSubScalar(x, Average(x)), ArrSubScalar(y, Average(y)))),
                     Sum(ArrSquare(ArrSubScalar(x, Average(x)))))]

LinearFit2(x, y) == StableSlope(x, y, Average(x), Average(y))


\* the bounds of the samples the model draws besides the notebook's data
MaxLen == 3
MaxX == 2

\* 2^e as a float64 value
PowerOfTwo(e) == [k |-> "fin", s |-> 0, m |-> <<1>>, e |-> e]

\* time stamps: the nondecreasing sequences of n values in 0..MaxX
Stamps(ar, n) ==
    {[i \in 1..n |-> Num(ar, f[i])] :
        f \in {g \in [1..n -> 0..MaxX] : \A i \in 2..n : g[i - 1] <= g[i]}}

\* n phases that step from 0 to 1 after the first j points
Phases(ar, n, j) == [i \in 1..n |-> Num(ar, IF i <= j THEN 0 ELSE 1)]

\* the offsets: finite precision adds one at which x^2 has more than 53 bits
Offsets(ar) ==
    IF ar = "exact" THEN {Num(ar, 0), Num(ar, 3)}
    ELSE {Num(ar, 3), PowerOfTwo(27)}

Samples(ar) ==
    UNION {{[baseline |-> b, _t |-> x, ph |-> Phases(ar, n, j)] :
               b \in Offsets(ar), x \in Stamps(ar, n), j \in 0..n} : n \in 0..MaxLen}

\* three equal x values whose float64 mean is not that value
Tenths ==
    {[baseline |-> Zero,
      _t       |-> [i \in 1..3 |-> Dec(0, 1, 1)],
      ph       |-> Phases("float64", 3, j)] : j \in 0..3}

\* the data of the notebook
Notebook ==
    [baseline |-> Dec(770656, 892832, 6),
     _t |-> <<Dec(0, 440225, 6), Dec(0, 45023, 5), Dec(0, 460235, 6),
              Dec(0, 470241, 6), Dec(0, 480245, 6), Dec(0, 490251, 6),
              Dec(0, 500256, 6), Dec(0, 510261, 6), Dec(0, 520266, 6),
              Dec(0, 530271, 6)>>,
     ph |-> <<Dec(568, 1473, 4), Dec(568, 4774, 4), Dec(568, 7626, 4),
              Dec(569, 398, 4), Dec(569, 234, 3), Dec(569, 5013, 4),
              Dec(569, 8461, 4), Dec(570, 1536, 4), Dec(570, 3557, 4),
              Dec(570, 6171, 4)>>]

Inputs(ar) ==
    IF ar = "exact" THEN Samples(ar) ELSE Samples(ar) \cup Tenths \cup {Notebook}

Init ==
    /\ arith \in {"float64", "exact"}
    /\ given \in Inputs(arith)
    /\ defs = {"linear"}
    /\ baseline = Undef
    /\ _t = Undef
    /\ t = Undef
    /\ ph = Undef
    /\ lfBaseline = Undef
    /\ lfNoBaseline = Undef
    /\ lf2Baseline = Undef
    /\ denom = Undef
    /\ compared = Undef
    /\ chart = Undef
    /\ expanded = Undef
    /\ error = "none"
    /\ last = "none"
    /\ top = <<>>
    /\ heap = <<>>
    /\ printed = <<>>
    /\ mode = "notebook"

\* baseline = ...; _t = np.array(...); t = baseline+_t; ph = np.array(...)
DefineData ==
    /\ last' = "DefineData"
    /\ UNCHANGED scopeVars
    /\ defs' = defs \cup {"baseline", "_t", "t", "ph"}
    /\ baseline' = given.baseline
    /\ _t' = given._t
    /\ t' = ArrAddScalar(given.baseline, given._t)
    /\ ph' = given.ph
    /\ error' = "none"
    /\ UNCHANGED <<arith, given, lfBaseline, lfNoBaseline, lf2Baseline, denom,
                   compared, chart, expanded>>

\* the comparison cell printing the slope of its first fit a second time, in
\* the place of the slope of LinearFit2
PrintedNaive(r1, r2, r3) ==
    [k      |-> "printed",
     values |-> <<r1.beta, r2.beta, r1.beta>>,
     warn   |-> r1.warn \/ r2.warn \/ r3.warn]

\* print(lfBaseline[0]); print(lfNoBaseline[0]); print(lf2Baseline[0]), and
\* the RuntimeWarnings of the three fits
\* pow is a function: the call with the arguments a2 has the result of the
\* call with a1 when the arguments are the same
Again(a1, r1, a2, r2) == a1 = a2 => r1 = r2

Printed(r1, r2, r3) ==
    [k      |-> "printed",
     values |-> <<r1.beta, r2.beta, r3.beta>>,
     warn   |-> r1.warn \/ r2.warn \/ r3.warn]

\* the comparison cell: defines LinearFit and LinearFit2, then fits three
\* times and prints the three slopes.  Without the data, the first fit stops
\* the cell with a NameError, after the two definitions.
Compare ==
    /\ last' = "Compare"
    /\ UNCHANGED scopeVars
    /\ IF "t" \notin defs
       THEN /\ defs' = defs \cup {"LinearFit", "LinearFit2"}
            /\ error' = "NameError"
            /\ UNCHANGED <<t, ph, lfBaseline, lfNoBaseline, lf2Baseline, compared>>
       ELSE \E r1 \in LinearFit(t, ph) :
            \E r2 \in LinearFit(ArrSubScalar(r1.x, baseline), r1.y) :
            \E r3 \in {LinearFit2(r1.x, r2.y)} :
                /\ Again(<<t, ph>>, r1, <<ArrSubScalar(r1.x, baseline), r1.y>>, r2)
                /\ defs' = defs \cup {"LinearFit", "LinearFit2", "lfBaseline",
                                        "lfNoBaseline", "lf2Baseline"}
                /\ lfBaseline' = <<r1.beta, r1.alpha>>
                /\ lfNoBaseline' = <<r2.beta, r2.alpha>>
                /\ lf2Baseline' = <<r3.beta, r3.alpha>>
                /\ t' = r3.x
                /\ ph' = r3.y
                /\ compared' = Printed(r1, r2, r3)
                /\ error' = "none"
    /\ UNCHANGED <<arith, given, baseline, _t, denom, chart, expanded>>

\* the plot cell: the data points, the classical fit on t and the fit on
\* t-baseline, all three drawn against t
Plot ==
    /\ last' = "Plot"
    /\ UNCHANGED scopeVars
    /\ IF ~({"t", "lfBaseline"} \subseteq defs)
       THEN /\ error' = "NameError"
            /\ UNCHANGED chart
       ELSE /\ chart' = [k           |-> "drawn",
                         datapoints  |-> <<t, ph>>,
                         classical   |-> <<t, ArrLinear(t, lfBaseline[1], lfBaseline[2])>>,
                         alternative |-> <<t, ArrLinear(ArrSubScalar(t, baseline),
                                                        lfNoBaseline[1], lfNoBaseline[2])>>]
            /\ error' = "none"
    /\ UNCHANGED <<arith, given, defs, baseline, _t, t, ph,
                   lfBaseline, lfNoBaseline, lf2Baseline, denom, compared, expanded>>

\* the cross term without its factor 2
Undoubled(b, tm) == Mul(b, tm)

\* 2*baseline*np.average(_t)
Doubled(b, tm) == Mul(Mul(NumLike(b, 2), b), tm)

\* the expansion cell: the two terms of the denominator with the baseline
\* multiplied out, the denominator without the baseline, and the slope with
\* that denominator
Expand ==
    /\ last' = "Expand"
    /\ UNCHANGED scopeVars
    /\ IF "t" \notin defs
       THEN /\ error' = "NameError"
            /\ UNCHANGED <<defs, denom, expanded>>
       ELSE \E tm \in {Average(_t)}, t2m \in {Average(ArrSquare(_t))},
               b2 \in PowTwo(baseline) :
            \E tm2 \in PowTwo(tm), bt \in {Doubled(baseline, tm)},
               nu \in {Sub(Average(ArrMul(t, ph)), Mul(Average(t), Average(ph)))} :
            \E p1 \in {Add(Add(t2m, b2), bt)}, p2 \in {Add(Add(b2, bt), tm2)},
               d \in {Sub(t2m, tm2)} :
            \E p4 \in {Div(nu, d)} :
                /\ Again(baseline, b2, tm, tm2)
                /\ defs' = defs \cup {"denom"}
                /\ denom' = d
                /\ expanded' = [k      |-> "printed",
                                values |-> <<p1, p2, d, p4>>,
                                warn   |-> _t = <<>> \/ Raises(nu, d, p4)]
                /\ error' = "none"
    /\ UNCHANGED <<arith, given, baseline, _t, t, ph,
                   lfBaseline, lfNoBaseline, lf2Baseline, compared, chart>>

Next == DefineData \/ Compare \/ Plot \/ Expand

Spec == Init /\ [][Next]_vars

(***************************************************************************)
(* The data and the comparison cells on a ladder of offsets: the notebook  *)
(* with other numbers in the place of its baseline, in float64.            *)
(***************************************************************************)
\* the ladder has the rungs 0..MaxRung
MaxRung == 4

\* the small offset 3 and the rungs 2^27, 2^36, 2^45, ..., each rung with
\* either sign: from 2^27 on the squares of the x values have more than 53
\* bits, from 2^54 on x + B is B for the x drawn
Ladder ==
    {FromInt(3)} \cup {PowerOfTwo(27 + 9 * j) : j \in 0..MaxRung}
                 \cup {FNeg(PowerOfTwo(27 + 9 * j)) : j \in 0..MaxRung}

LadderInputs ==
    UNION {{[baseline |-> b, _t |-> x, ph |-> Phases("float64", n, j)] :
               b \in Ladder, x \in Stamps("float64", n), j \in 0..n} : n \in 0..MaxLen}

LadderInit ==
    /\ arith = "float64"
    /\ given \in LadderInputs
    /\ defs = {"linear"}
    /\ baseline = Undef
    /\ _t = Undef
    /\ t = Undef
    /\ ph = Undef
    /\ lfBaseline = Undef
    /\ lfNoBaseline = Undef
    /\ lf2Baseline = Undef
    /\ denom = Undef
    /\ compared = Undef
    /\ chart = Undef
    /\ expanded = Undef
    /\ error = "none"
    /\ last = "none"
    /\ top = <<>>
    /\ heap = <<>>
    /\ printed = <<>>
    /\ mode = "notebook"

LadderNext == DefineData \/ Compare

LadderSpec == LadderInit /\ [][LadderNext]_vars

(***************************************************************************)
(* The notebook on the scope of variables.  A namespace maps the names     *)
(* bound in it to integers; the value of a name bound to a numpy array is  *)
(* the reference of the array in the heap.  A call returns the top-level   *)
(* namespace and the heap as it leaves them, the lines it printed and the  *)
(* exception it raised, "none" without one.                                *)
(***************************************************************************)
\* the largest integer the literals of the cells are drawn from
MaxVal == 3

\* what print wrote: the source line of the call and the values formatted
Line(at, vals) == [at |-> at, vals |-> vals]

\* name = v in the namespace ns
Bind(ns, name, v) == [n \in DOMAIN ns \cup {name} |-> IF n = name THEN v ELSE ns[n]]

\* the value of a name read inside a function: its local, else the top-level one
Read(frame, glob, name) == IF name \in DOMAIN frame THEN frame[name] ELSE glob[name]

\* the reference of a new array: the first one not in use
NewRef(h) == CHOOSE i \in 1..(Cardinality(DOMAIN h) + 1) :
                 i \notin DOMAIN h /\ \A j \in 1..(i - 1) : j \in DOMAIN h

\* np.array(x), x.copy(): a new array with the elements x, at reference ref
Alloc(h, ref, x) == [i \in DOMAIN h \cup {ref} |-> IF i = ref THEN x ELSE h[i]]

\* the heap without the arrays that no name in ns refers to any more
Collect(h, ns) == [i \in {ns[n] : n \in DOMAIN ns \cap {"e"}} \cap DOMAIN h |-> h[i]]

\* the outcome of a call or of a cell's statements
Outcome(ns, h, out, err) == [top |-> ns, heap |-> h, out |-> out, error |-> err]

\* function1 with "global b, c" before its assignments
function1Global(glob, h) ==
    Outcome(Bind(Bind(glob, "b", 10), "c", 11), h, <<Line(44, <<10, 11>>)>>, "none")

\* the body of function1 in its frame: b = 10; c = 11; print(b, c)
function1Body(frame, glob, h) ==
    Outcome(glob, h, <<Line(44, <<Read(frame, glob, "b"), Read(frame, glob, "c")>>)>>, "none")

function1(glob, h) == function1Body(Bind(Bind(<<>>, "b", 10), "c", 11), glob, h)

\* function2 with "global c": its assignment binds the top-level c
function2Global(glob, h, arg) ==
    Outcome(Bind(glob, "c", 0), h, <<Line(78, <<arg>>), Line(80, <<0>>)>>, "none")

\* the body of function2 after c = 0, in the frame before and after it
function2Body(before, frame, glob, h) ==
    Outcome(glob, h, <<Line(78, <<Read(before, glob, "c")>>),
                       Line(80, <<Read(frame, glob, "c")>>)>>, "none")

\* function2(c): print(c); c = 0; print(c)
function2(glob, h, arg) ==
    function2Body(Bind(<<>>, "c", arg), Bind(Bind(<<>>, "c", arg), "c", 0), glob, h)

\* function3(): print(d), d read from the top level
function3(glob, h) ==
    IF "d" \in DOMAIN glob
    THEN Outcome(glob, h, <<Line(102, <<Read(<<>>, glob, "d")>>)>>, "none")
    ELSE Outcome(glob, h, <<>>, "NameError")

\* e[2] = v on the array at ref: IndexError on fewer than three elements
SetItem(glob, h, ref, v, first, second) ==
    IF Len(h[ref]) < 3
    THEN Outcome(glob, h, <<first>>, "IndexError")
    ELSE Outcome(glob, [h EXCEPT ![ref][3] = v],
                 <<first, Line(second, [h[ref] EXCEPT ![3] = v])>>, "none")

\* a call's outcome once it has returned: the arrays only its frame referred
\* to are gone
Returned4(r) == [r EXCEPT !.heap = Collect(r.heap, r.top)]

\* function4_safe without the copy
function4_safeAlias(glob, h, arg) ==
    Returned4(SetItem(glob, h, arg, 1, Line(161, h[arg]), 163))

\* function4 with the copy of function4_safe
function4OnCopy(glob, h, arg) ==
    Returned4(SetItem(glob, Alloc(h, NewRef(h), h[arg]), NewRef(h), 0,
                      Line(132, h[arg]), 134))

\* function4(e): print(e); e[2] = 0; print(e)
function4(glob, h, arg) ==
    Returned4(SetItem(glob, h, arg, 0, Line(132, h[arg]), 134))

\* function4_safe(e): e = e.copy(); print(e); e[2] = 1; print(e)
function4_safe(glob, h, arg) ==
    Returned4(SetItem(glob, Alloc(h, NewRef(h), h[arg]), NewRef(h), 1,
                      Line(161, h[arg]), 163))

\* the literals of the notebook's cells: c = 2, d = 3, e = np.array([1, 2, 3])
Literals == [c |-> 2, d |-> 3, e |-> <<1, 2, 3>>]

\* the notebook's literals with one of them replaced
ScopeInputs ==
    {[Literals EXCEPT !.c = v] : v \in 0..MaxVal}
    \cup {[Literals EXCEPT !.d = v] : v \in 0..MaxVal}
    \cup {[Literals EXCEPT !.e = x] : x \in [1..3 -> 0..MaxVal]}

ScopeInit ==
    /\ given \in ScopeInputs
    /\ mode \in {"notebook", "script"}
    /\ defs = {}
    /\ top = <<>>
    /\ heap = <<>>
    /\ printed = <<>>
    /\ error = "none"
    /\ last = "none"
    /\ arith = "exact"
    /\ baseline = Undef
    /\ _t = Undef
    /\ t = Undef
    /\ ph = Undef
    /\ lfBaseline = Undef
    /\ lfNoBaseline = Undef
    /\ lf2Baseline = Undef
    /\ denom = Undef
    /\ compared = Undef
    /\ chart = Undef
    /\ expanded = Undef

\* the kernel after the statements of the cell named cell, which defined the
\* functions named in funs and ended as r
Ran(cell, funs, r) ==
    /\ last' = cell
    /\ defs' = defs \cup funs \cup DOMAIN r.top
    /\ top' = r.top
    /\ heap' = r.heap
    /\ printed' = r.out
    /\ error' = r.error
    /\ UNCHANGED <<arith, given, mode, fitVars>>

\* the statements after a call that ended as r: nothing when it raised, else
\* the lines more
Then(r, more) == IF r.error /= "none" THEN r ELSE [r EXCEPT !.out = r.out \o more]

\* r with the lines before in front of what it printed
After(before, r) == [r EXCEPT !.out = before \o r.out]

\* a = 1
AssignA ==
    /\ mode = "notebook"
    /\ Ran("AssignA", {}, Outcome(Bind(top, "a", 1), heap, <<>>, "none"))

\* print(a)
PrintA ==
    /\ mode = "notebook"
    /\ Ran("PrintA", {},
           IF "a" \in DOMAIN top
           THEN Outcome(top, heap, <<Line(31, <<top["a"]>>)>>, "none")
           ELSE Outcome(top, heap, <<>>, "NameError"))

\* print(b) at the top level, after the lines before
PrintB(r) ==
    IF "b" \in DOMAIN r.top
    THEN Then(r, <<Line(49, <<r.top["b"]>>)>>)
    ELSE [r EXCEPT !.error = "NameError"]

\* def function1; function1(); two prints; print(b)
Function1Cell ==
    /\ mode = "notebook"
    /\ Ran("Function1Cell", {"function1"},
           PrintB(Then(function1(top, heap), <<Line(47, <<>>), Line(48, <<>>)>>)))

\* the line 64 after function1() returned as r
StillC(r) == Then(r, <<Line(64, <<r.top["c"]>>)>>)

\* c = 2; function1(); print(c)
DefineC ==
    /\ mode = "notebook"
    /\ Ran("DefineC", {},
           After(<<Line(58, <<>>), Line(60, <<given.c>>), Line(62, <<>>)>>,
                 IF "function1" \in defs
                 THEN StillC(function1(Bind(top, "c", given.c), heap))
                 ELSE Outcome(Bind(top, "c", given.c), heap, <<>>, "NameError")))

\* the line 84 after function2(c) returned as r
BackAtTop(r) == Then(r, <<Line(84, <<r.top["c"]>>)>>)

\* print(c); def function2; function2(c); print(c)
Function2Cell ==
    /\ mode = "notebook"
    /\ IF "c" \in DOMAIN top
       THEN Ran("Function2Cell", {"function2"},
                After(<<Line(75, <<top["c"]>>)>>, BackAtTop(function2(top, heap, top["c"]))))
       ELSE Ran("Function2Cell", {}, Outcome(top, heap, <<>>, "NameError"))

\* def function3; d = 3; print(d); function2(): the call has no argument
\* for the parameter c of function2
Function3Statements(cell) ==
    Ran(cell, {"function3"},
        Outcome(Bind(top, "d", given.d), heap,
                <<Line(104, <<>>), Line(106, <<given.d>>)>>,
                IF "function2" \in defs THEN "TypeError" ELSE "NameError"))

Function3Cell ==
    /\ mode = "notebook"
    /\ Function3Statements("Function3Cell")

\* the statements of that cell as a Python script of their own
Script3 ==
    /\ mode = "script"
    /\ last = "none"
    /\ Function3Statements("Script3")

\* the line 138 after function4(e) returned as r
Modified(r) == Then(r, <<Line(138, r.heap[r.top["e"]])>>)

\* e = np.array(...) bound at the new reference ref, then function4(e)
Function4Call(glob, h, ref) ==
    After(<<Line(129, h[ref])>>, Modified(function4(glob, Collect(h, glob), ref)))

\* import numpy; e = np.array([1, 2, 3]); print(e); def function4;
\* function4(e); print(e)
Function4Cell ==
    /\ mode = "notebook"
    /\ Ran("Function4Cell", {"np", "function4"},
           Function4Call(Bind(top, "e", NewRef(heap)),
                         Alloc(heap, NewRef(heap), given.e), NewRef(heap)))

\* the line 167 after function4_safe(e) returned as r
Unchanged(r) == Then(r, <<Line(167, r.heap[r.top["e"]])>>)

\* print(e); def function4_safe; function4_safe(e); print(e)
Function4SafeCell ==
    /\ mode = "notebook"
    /\ IF "e" \in DOMAIN top
       THEN Ran("Function4SafeCell", {"function4_safe"},
                After(<<Line(156, heap[top["e"]])>>,
                      Unchanged(function4_safe(top, heap, top["e"]))))
       ELSE Ran("Function4SafeCell", {}, Outcome(top, heap, <<>>, "NameError"))

ScopeNext ==
    \/ AssignA \/ PrintA \/ Function1Cell \/ DefineC \/ Function2Cell
    \/ Function3Cell \/ Script3 \/ Function4Cell \/ Function4SafeCell

ScopeSpec == ScopeInit /\ [][ScopeNext]_vars

(***************************************************************************)
(* The notebook on the pretty printing of matrices: the sympy expressions  *)
(* its functions build and hand to pprint.  The cell of the example prints *)
(* the matrix A, the vector b and the solution x of the least squares      *)
(* problem A x = b.                                                        *)
(***************************************************************************)
\* the largest entry of the vectors b and x the model draws
MaxEntry == 2

\* Matrix(np.array(M)) of a two-dimensional M, and of a vector v: a column
Matrix2D(M) == [shape |-> <<Len(M), Len(M[1])>>, rows |-> M]
Matrix1D(v) == [shape |-> <<Len(v), 1>>, rows |-> [i \in 1..Len(v) |-> <<v[i]>>]]

UnevaluatedExpr(x) == [k |-> "UnevaluatedExpr", arg |-> x]

symbols(name) == [k |-> "Symbol", name |-> name]

\* l * r of two unevaluated expressions
Times(l, r) == [k |-> "Mul", lhs |-> l, rhs |-> r]

\* Eq that keeps every equation unevaluated
EqUnevaluated(l, r) == [k |-> "Eq", lhs |-> l, rhs |-> r]

\* sympy's Eq(l, r): the boolean True when the two sides are the same
\* expression, else the equation
Eq(l, r) == IF l = r THEN [k |-> "true"] ELSE [k |-> "Eq", lhs |-> l, rhs |-> r]

\* pprint(x), and print of the text at a source line
pprint(x) == [k |-> "pprint", shown |-> x]
Text(at) == [k |-> "print", shown |-> at]

\* the x of PrintMxEqualsB: a string names an unknown
Unknown(x) == IF "str" \in DOMAIN x THEN symbols(x.str) ELSE Matrix1D(x.vec)

PrintMxEqualsB(M, x, b) ==
    pprint(Eq(Times(UnevaluatedExpr(Matrix2D(M)), UnevaluatedExpr(Unknown(x))),
              UnevaluatedExpr(Matrix1D(b))))

PrintAEqualsB(a, b) == pprint(Eq(UnevaluatedExpr(Matrix1D(a)), UnevaluatedExpr(Matrix1D(b))))

PrintMatrix(a) == pprint(UnevaluatedExpr(Matrix2D(a)))

\* PrintVector(a) is PrintMatrix(a), of a vector
PrintVector(a) == pprint(UnevaluatedExpr(Matrix1D(a)))

\* an element of an integer array, and np.array of a list of integers and
\* of a list of such lists
Int64(i) == [k |-> "int64", v |-> i]
IntArray(v) == [i \in 1..Len(v) |-> Int64(v[i])]
IntArray2D(M) == [i \in 1..Len(M) |-> IntArray(M[i])]

\* A = np.array([[1,2,7,5], [4,1,2,3], [2,4,1,2], [4,5,9,2]])
ExampleA == IntArray2D(<<<<1, 2, 7, 5>>, <<4, 1, 2, 3>>, <<2, 4, 1, 2>>, <<4, 5, 9, 2>>>>)

\* M without its first row and its column j
Minor(M, j) ==
    [r \in 1..(Len(M) - 1) |->
        [c \in 1..(Len(M) - 1) |-> M[r + 1][IF c < j THEN c ELSE c + 1]]]

\* the determinant of the integer matrix M, expanded along its first row
\* from column j on
RECURSIVE DetFrom(_, _)
DetFrom(M, j) ==
    IF Len(M) = 1 THEN M[1][1].v
    ELSE IF j > Len(M) THEN 0
    ELSE (IF j % 2 = 1 THEN 1 ELSE -1) * M[1][j].v * DetFrom(Minor(M, j), 1)
         + DetFrom(M, j + 1)

Det(M) == DetFrom(M, 1)

\* M with b in the place of its column j
WithColumn(M, j, b) ==
    [r \in 1..Len(M) |-> [c \in 1..Len(M) |-> IF c = j THEN b[r] ELSE M[r][c]]]

\* a float64 value that approximates n / d: which value, the rounding in
\* LAPACK decides (recorded for b = 1, 1, 1, 1: 0.0990654205607479 for
\* 53/535, to the 15 digits printed)
Float64Near(n, d) == [k |-> "float64", near |-> Rat(n, d)]

\* np.linalg.lstsq(M, b, rcond=None)[0] for a square M that has an inverse,
\* as the example's A: the solution of M x = b, in float64
lstsq(M, b) == [j \in 1..Len(M) |-> Float64Near(Det(WithColumn(M, j, b)), Det(M))]

\* the vector b of the example, 1, 1, 1, 1 in the notebook: positive integers
PrintInputs == {[b |-> IntArray(v)] : v \in [1..4 -> 1..MaxEntry]}

PrintInit ==
    /\ given \in PrintInputs
    /\ mode = "notebook"
    /\ defs = {}
    /\ top = <<>>
    /\ heap = <<>>
    /\ printed = <<>>
    /\ error = "none"
    /\ last = "none"
    /\ arith = "exact"
    /\ baseline = Undef
    /\ _t = Undef
    /\ t = Undef
    /\ ph = Undef
    /\ lfBaseline = Undef
    /\ lfNoBaseline = Undef
    /\ lf2Baseline = Undef
    /\ denom = Undef
    /\ compared = Undef
    /\ chart = Undef
    /\ expanded = Undef

\* the kernel after a cell that defined the names in names, printed out and
\* ended as err
Shown(cell, names, out, err) ==
    /\ last' = cell
    /\ defs' = defs \cup names
    /\ printed' = out
    /\ error' = err
    /\ UNCHANGED <<arith, given, mode, top, heap, fitVars>>

\* from sympy import Matrix, pprint, Eq, UnevaluatedExpr, symbols; import numpy as np
ImportCell ==
    /\ mode = "notebook"
    /\ Shown("ImportCell", {"Matrix", "pprint", "Eq", "UnevaluatedExpr", "symbols", "np"},
             <<>>, "none")

\* the four function definitions
UtilitiesCell ==
    /\ mode = "notebook"
    /\ Shown("UtilitiesCell",
             {"PrintMxEqualsB", "PrintAEqualsB", "PrintMatrix", "PrintVector"}, <<>>, "none")

\* what the cell of the example prints with every name it uses defined
ExampleOutput(A, b, x) ==
    <<Text(135), PrintMatrix(A), Text(137), PrintVector(b),
      Text(139), PrintMxEqualsB(A, [str |-> "x"], b),
      Text(141), PrintMxEqualsB(A, [vec |-> x], b),
      Text(143), PrintAEqualsB(x, b),
      Text(152), PrintAEqualsB(b, b)>>

\* A = ...; b = ...; x = np.linalg.lstsq(A, b, rcond=None)[0]; the prints.  Without the
\* imports the first statement raises NameError; without the utilities, the
\* call of PrintMatrix does, after the first print.
ExampleCell ==
    /\ mode = "notebook"
    /\ IF "np" \notin defs
       THEN Shown("ExampleCell", {}, <<>>, "NameError")
       ELSE IF "PrintMatrix" \notin defs
       THEN Shown("ExampleCell", {"A", "b", "x"}, <<Text(135)>>, "NameError")
       ELSE Shown("ExampleCell", {"A", "b", "x"},
                  ExampleOutput(ExampleA, given.b, lstsq(ExampleA, given.b)), "none")

PrintNext == ImportCell \/ UtilitiesCell \/ ExampleCell

PrintSpec == PrintInit /\ [][PrintNext]_vars
(***************************************************************************)
(* Comparisons of values, exact: no rounding takes part in them.           *)
(***************************************************************************)
\* sign * m * 2^e is below zero
Negative(d) == d[2] /= <<>> /\ d[1] = 1

\* a < b, for finite a and b of one kind
Less(a, b) ==
    IF a.k = "rat" THEN a.n * b.d < b.n * a.d ELSE Negative(ExactAdd(a, FNeg(b)))

\* |sign * m * 2^e|, not rounded
Magnitude(d) == [k |-> "fin", s |-> 0, m |-> d[2], e |-> d[3]]

QAbs(d) == Rat(Abs(d.n), d.d)

\* |a - b|, for finite a and b of one kind
Distance(a, b) ==
    IF a.k = "rat" THEN QAbs(QSub(a, b)) ELSE Magnitude(ExactAdd(a, FNeg(b)))

\* a and b are finite and |a - b| <= tol
Within(a, b, tol) == IsFinite(a) /\ IsFinite(b) /\ ~Less(tol, Distance(a, b))

\* at least two distinct values in x
Distinct(x) == \E i, j \in 1..Len(x) : x[i] /= x[j]

\* a is 0, or one of the float64 values 0.0 and -0.0
IsZero(a) == IF a.k = "rat" THEN a.n = 0 ELSE a.k = "fin" /\ a.m = <<>>

\* the relative tolerance of the comparisons of float64 slopes
Tol == Dec(0, 1, 9)

\* tol * |b|, not rounded
Scaled(tol, b) == [k |-> "fin", s |-> 0, m |-> NMul(tol.m, b.m), e |-> tol.e + b.e]

\* a and b are finite and |a - b| <= Tol * |b|
Close(a, b) == IsFinite(a) /\ IsFinite(b) /\ ~Less(Scaled(Tol, b), Distance(a, b))

(***************************************************************************)
(* The claims.                                                             *)
(***************************************************************************)
Fitted == "lfBaseline" \in defs

\* the tuple a fit returns
Pair(r) == <<r.beta, r.alpha>>

\* C1: in exact arithmetic, for every sample with at least two distinct x
\* values, the naive estimator LinearFit and the stable estimator LinearFit2
\* return the same slope and the same intercept: on (t, ph), as the
\* comparison cell calls them, and on the offset-free (_t, ph).
C1_SameFit ==
    (arith = "exact" /\ Fitted /\ Distinct(t)) =>
        /\ IsFinite(lfBaseline[1])
        /\ lf2Baseline = lfBaseline
        /\ Pair(LinearFit2(_t, ph)) = lfNoBaseline

\* C1's case: three points at offset 3 with slope 1/2 and intercept -4/3,
\* from both estimators
C1_Witness ==
    /\ arith = "exact" /\ Fitted /\ Len(t) = 3
    /\ baseline = Rat(3, 1)
    /\ lfBaseline = <<Rat(1, 2), Rat(-4, 3)>>
    /\ lf2Baseline = <<Rat(1, 2), Rat(-4, 3)>>

\* the three slopes a, b, c agree: they are equal in exact arithmetic, and
\* in float64 each is within Tol of the next, relatively
SlopesAgree(a, b, c) ==
    IF a.k = "rat" THEN a = b /\ b = c
    ELSE Close(a, b) /\ Close(b, c) /\ Close(c, a)

\* C2 as stated: for every sample with at least two distinct x values, the
\* slope of LinearFit2 on (x+B, y) equals its slope on (x, y), and equals the
\* slope of LinearFit on the data with the offset subtracted.
C2_Original ==
    (Fitted /\ Distinct(_t)) =>
        /\ lf2Baseline[1] = LinearFit2(_t, ph).beta
        /\ lf2Baseline[1] = lfNoBaseline[1]

\* C2, amended: for every sample with at least two distinct x values, the
\* slope of LinearFit2 on (x+B, y), its slope on (x, y) and the slope of
\* LinearFit on the data with the offset subtracted are equal in exact
\* arithmetic; in float64 they agree to a relative 1e-9, not bit for bit.
C2_SlopesAgree ==
    (Fitted /\ Distinct(_t)) =>
        SlopesAgree(lf2Baseline[1], LinearFit2(_t, ph).beta, lfNoBaseline[1])

\* C2's case: float64, x = 0, 0, 2 at offset 3: the stable slope with the
\* offset is not the naive slope 0.5 without it
C2_Witness ==
    /\ arith = "float64" /\ Fitted
    /\ baseline = FromInt(3)
    /\ _t = <<Zero, Zero, FromInt(2)>>
    /\ lfNoBaseline[1] = Dec(0, 5, 1)
    /\ lf2Baseline[1] /= lfNoBaseline[1]

\* the intercept b of the data moved by B, against the fit r of the data not
\* moved: r.alpha - r.beta * B, exactly or to a relative Tol
Moved(b, r, B) ==
    IF b.k = "rat" THEN b = Sub(r.alpha, Mul(r.beta, B))
    ELSE Close(b, Sub(r.alpha, Mul(r.beta, B)))

\* C3 as stated: for every sample with at least two distinct x values,
\* LinearFit2 returns the same pair (slope, intercept) on (x+B, y) as on (x, y).
C3_Original ==
    (Fitted /\ Distinct(_t)) => lf2Baseline = Pair(LinearFit2(_t, ph))

\* C3, amended: for every sample with at least two distinct x values,
\* LinearFit2 returns the same slope on (x+B, y) as on (x, y), but not the
\* same intercept: the intercept on (x+B, y) is the intercept on (x, y) less
\* slope * B (exactly in exact arithmetic, to a relative 1e-9 in float64).
C3_InterceptMoves ==
    (Fitted /\ Distinct(_t)) =>
        /\ arith = "exact" => lf2Baseline[1] = LinearFit2(_t, ph).beta
        /\ arith = "float64" => Close(lf2Baseline[1], LinearFit2(_t, ph).beta)
        /\ Moved(lf2Baseline[2], LinearFit2(_t, ph), baseline)

\* C3's case: exact arithmetic, offset 3: slope 1/2 with and without the
\* offset, intercept -4/3 with it and 1/6 without
C3_Witness ==
    /\ arith = "exact" /\ Fitted
    /\ baseline = Rat(3, 1)
    /\ lf2Baseline = <<Rat(1, 2), Rat(-4, 3)>>
    /\ Pair(LinearFit2(_t, ph)) = <<Rat(1, 2), Rat(1, 6)>>

\* C4 as stated: on a degenerate input (fewer than two points, or all x
\* equal) LinearFit and LinearFit2 end in an error and return no result: the
\* comparison cell binds the results of its fits only when the x values it
\* fits are not all equal.
C4_Original == Fitted => Distinct(t)

\* C5 as stated: the comparison reports four slopes.
C5_Original == compared.k = "printed" => Len(compared.values) = 4

\* C5, amended: the comparison computes and reports exactly three slopes:
\* naive on (x+B, y), naive on (x, y) with the offset subtracted first, and
\* stable on (x+B, y); stable on (x, y) with the offset subtracted is not
\* computed.
C5_ThreeSlopes ==
    compared.k = "printed" =>
        /\ \E r1 \in LinearFit(t, ph), r2 \in LinearFit(ArrSubScalar(t, baseline), ph) :
               compared.values = <<r1.beta, r2.beta, LinearFit2(t, ph).beta>>
        /\ compared.values = <<lfBaseline[1], lfNoBaseline[1], lf2Baseline[1]>>

\* C5's case: the notebook's data, with its three slopes printed
C5_Witness ==
    /\ given = Notebook
    /\ compared.k = "printed"
    /\ Len(compared.values) = 3
    /\ compared.values[1] /= compared.values[3]

\* a deviates from b by more than the relative tolerance: a - b is a number,
\* or an infinity, above Tol * |b|; of a nan nothing of the kind is true
Deviates(a, b) ==
    \/ a.k = "inf" /\ IsFinite(b)
    \/ a.k = "fin" /\ b.k = "fin" /\ Less(Scaled(Tol, b), Distance(a, b))

\* |b| of a float64 number b
Size(b) == [b EXCEPT !.s = 0]

\* the thresholds the ladder can tell apart: those with an offset above them
Thresholds == {Size(b) : b \in {b \in Ladder : \E c \in Ladder : Less(Size(b), Size(c))}}

\* C6 as stated, on the ladder: there is a threshold B* such that, for
\* every offset B with |B| above it and every sample with at least two distinct x
\* values, the slope of LinearFit on (x+B, y) deviates from its slope on
\* (x, y) by more than the tolerance.  Of a state the claim says that some
\* threshold is right for it; a threshold that is right stays right when
\* raised, so the claim holds on the ladder exactly if this holds of every
\* state.
C6_Original ==
    \E b \in Thresholds :
        (Fitted /\ Distinct(_t) /\ Less(b, Size(baseline))) =>
            \A r \in LinearFit(_t, ph) : Deviates(lfBaseline[1], r.beta)

\* the threshold of the amended claim
Threshold == PowerOfTwo(26)

\* C6, amended: there is a threshold, 2^26, such that at every offset B of
\* the ladder with |B| above it the slope of LinearFit on (x+B, y) is not within a
\* relative 1e-9 of its slope on (x, y): it deviates by more, or is not a
\* finite number, for every sample with at least two distinct x values and
\* two distinct y values.  When y is constantly 0 or constantly 1 no offset
\* does that: the slope is zero, as on (x, y), or nan.
C6_Deviates ==
    (Fitted /\ Distinct(_t)) =>
        /\ (Less(Threshold, Size(baseline)) /\ Distinct(ph)) =>
               \A r \in LinearFit(_t, ph) : ~Close(lfBaseline[1], r.beta)
        /\ ~Distinct(ph) => (IsZero(lfBaseline[1]) \/ IsNaN(lfBaseline[1]))

\* C6's case: x = 1, 2 and y = 0, 1 at the offset 2^27, above the
\* threshold: the slope is -0.0625, not 1
C6_Witness ==
    /\ Fitted
    /\ baseline = PowerOfTwo(27)
    /\ _t = <<FromInt(1), FromInt(2)>>
    /\ ph = <<Zero, FromInt(1)>>
    /\ Less(Threshold, Size(baseline))
    /\ lfBaseline[1] = FNeg(PowerOfTwo(-4))
    /\ {r.beta : r \in LinearFit(_t, ph)} = {FromInt(1)}
    /\ Deviates(lfBaseline[1], FromInt(1))

\* lo <= a < hi
Between(a, lo, hi) == IsFinite(a) /\ ~Less(a, lo) /\ Less(a, hi)

\* C7: on the notebook's data, the slope of LinearFit2 on (baseline + _t, ph)
\* and the slope of LinearFit on the data with the baseline subtracted are
\* both 27.2693 to the digits given: in [27.26925, 27.26935).
C7_NotebookSlopes ==
    (given = Notebook /\ Fitted) =>
        /\ Between(lf2Baseline[1], Dec(27, 26925, 5), Dec(27, 26935, 5))
        /\ Between(lfNoBaseline[1], Dec(27, 26925, 5), Dec(27, 26935, 5))

\* C7's case: the slopes 27.269338887270596 and 27.26933888725625
C7_Witness ==
    /\ given = Notebook /\ Fitted
    /\ lf2Baseline[1] = [k |-> "fin", s |-> 0, m |-> <<24133, 18784, 5069, 218>>, e |-> -48]
    /\ lfNoBaseline[1] = [k |-> "fin", s |-> 0, m |-> <<20095, 18784, 5069, 218>>, e |-> -48]

\* C8: on the notebook's data, the slope of LinearFit on (baseline + _t, ph)
\* is further from 27.2693 than 3% of 27.2693, that is 0.818079.
C8_NotebookNaive ==
    (given = Notebook /\ Fitted) =>
        /\ IsFinite(lfBaseline[1])
        /\ Less(Dec(0, 818079, 6), Distance(lfBaseline[1], Dec(27, 2693, 4)))

\* C8's case: the slope 26.355189732142858
C8_Witness ==
    /\ given = Notebook /\ Fitted
    /\ lfBaseline[1] = [k |-> "fin", s |-> 0, m |-> <<28087, 28086, 27574, 210>>, e |-> -48]

\* C9 as stated: for every input whose x values are not all equal, LinearFit
\* returns a finite slope and a finite intercept and signals nothing.
C9_Original ==
    (Fitted /\ Distinct(t)) =>
        /\ IsFinite(lfBaseline[1]) /\ IsFinite(lfBaseline[2])
        /\ \A r \in LinearFit(t, ph) : ~r.warn

\* the fit r is finite and nothing was signalled, or it is not finite, in
\* slope and in intercept, and a RuntimeWarning was issued
FiniteOrWarned(r) ==
    \/ IsFinite(r.beta) /\ IsFinite(r.alpha) /\ ~r.warn
    \/ ~IsFinite(r.beta) /\ ~IsFinite(r.alpha) /\ r.warn

\* C9, amended: for every input whose x values are not all equal, LinearFit
\* raises no exception and returns a pair, which is not always finite: when
\* the computed denominator is zero the slope and the intercept are nan or
\* infinite and numpy issues a RuntimeWarning; otherwise both are finite and
\* nothing is signalled.  In exact arithmetic, and at offset 3, they are finite.
C9_FiniteOrWarned ==
    (Fitted /\ Distinct(t)) =>
        /\ error = "none"
        /\ \E r \in LinearFit(t, ph) : lfBaseline = Pair(r) /\ FiniteOrWarned(r)
        /\ (arith = "exact" \/ baseline = FromInt(3)) => IsFinite(lfBaseline[1])

\* C9's case: x = 0, 1 and y = 0, 1 at offset 2^27: slope inf, intercept -inf
\* and a RuntimeWarning
C9_Witness ==
    /\ arith = "float64" /\ Fitted
    /\ baseline = PowerOfTwo(27)
    /\ Distinct(t)
    /\ lfBaseline = <<Inf(0), Inf(1)>>
    /\ compared.warn

\* C10: once the data cell has run, whichever cells run after it, baseline,
\* _t and ph hold the values they were given and t holds baseline + _t.
C10_InputsKept ==
    "t" \in defs =>
        /\ baseline = given.baseline
        /\ _t = given._t
        /\ ph = given.ph
        /\ t = ArrAddScalar(given.baseline, given._t)

\* C10's case: the comparison, the plot and the expansion have all run on
\* the notebook's data
C10_Witness ==
    /\ given = Notebook
    /\ Fitted
    /\ chart.k = "drawn"
    /\ expanded.k = "printed"
    /\ t /= _t

\* C11: the results of LinearFit and LinearFit2 depend on their arguments
\* only: whichever cells ran since the comparison cell bound lfBaseline,
\* lfNoBaseline and lf2Baseline, and whatever they defined, a later run of
\* any cell, the comparison cell with its three calls included, leaves the
\* three results as they were.
C11_SameResults ==
    [][(Fitted /\ Fitted') =>
           /\ lfBaseline' = lfBaseline
           /\ lfNoBaseline' = lfNoBaseline
           /\ lf2Baseline' = lf2Baseline]_vars

\* C11's case: float64, the comparison cell has run again after the plot and
\* the expansion cells, which defined denom, and found the same three fits
C11_Witness ==
    /\ arith = "float64" /\ given = Notebook
    /\ last = "Compare"
    /\ chart.k = "drawn"
    /\ "denom" \in defs
    /\ lfBaseline \in {Pair(r) : r \in LinearFit(t, ph)}
    /\ lf2Baseline = Pair(LinearFit2(t, ph))

\* C12: function4(e) called with the top-level array e modifies the caller's
\* array: when the cell of function4 has run, element 2 of the top-level e
\* is 0, elements 0 and 1 are those of the array the cell built, and the
\* cell's last print shows that array.
C12_CallerModified ==
    last = "Function4Cell" =>
        /\ error = "none"
        /\ heap[top["e"]] = <<given.e[1], given.e[2], 0>>
        /\ printed[Len(printed)] = Line(138, <<given.e[1], given.e[2], 0>>)

\* C12's case: e = np.array([1, 2, 3]) is [1, 2, 0] after function4(e)
C12_Witness ==
    /\ last = "Function4Cell"
    /\ given.e = <<1, 2, 3>>
    /\ printed[1] = Line(129, <<1, 2, 3>>)
    /\ heap[top["e"]] = <<1, 2, 0>>

\* C13: function4_safe(e) leaves the caller's array unchanged: a run of its
\* cell, whatever the array the top-level e refers to, leaves e referring to
\* the same array with the same elements, and no other array behind.
C13_CallerUnchanged ==
    [][(last' = "Function4SafeCell" /\ "e" \in DOMAIN top) =>
           /\ error' = "none"
           /\ top' = top
           /\ heap' = heap
           /\ printed'[4] = Line(167, heap[top["e"]])]_vars

\* C13's case: e is [1, 2, 0]; function4_safe printed its copy [1, 2, 1]
\* and the top-level e is still [1, 2, 0]
C13_Witness ==
    /\ last = "Function4SafeCell"
    /\ error = "none"
    /\ heap[top["e"]] = <<1, 2, 0>>
    /\ printed[3] = Line(163, <<1, 2, 1>>)
    /\ printed[4] = Line(167, <<1, 2, 0>>)

\* C14: the assignment c = 0 inside function2 does not reach the caller: a
\* run of the cell of function2, whatever the value of the top-level c,
\* leaves the top-level c as it was, and prints that value last.
C14_ParameterLocal ==
    [][(last' = "Function2Cell" /\ "c" \in DOMAIN top) =>
           /\ error' = "none"
           /\ top' = top
           /\ printed' = <<Line(75, <<top["c"]>>), Line(78, <<top["c"]>>),
                           Line(80, <<0>>), Line(84, <<top["c"]>>)>>]_vars

\* C14's case: c = 2 before and after function2(c), 0 inside it
C14_Witness ==
    /\ last = "Function2Cell"
    /\ error = "none"
    /\ top["c"] = 2
    /\ printed[3] = Line(80, <<0>>)
    /\ printed[4] = Line(84, <<2>>)

\* C15: b and c assigned inside function1 are not the top-level variables:
\* after the cell "c = 2; function1()", and after the cell of function1,
\* the top-level c is the value the cell assigned, 2 in the notebook, and
\* function1 printed its own 10 and 11.
C15_DifferentVariable ==
    /\ (last \in {"DefineC", "Function1Cell"} /\ "c" \in DOMAIN top) =>
           top["c"] = given.c
    /\ (last = "DefineC" /\ error = "none") =>
           /\ printed[4] = Line(44, <<10, 11>>)
           /\ printed[5] = Line(64, <<given.c>>)

\* C15's case: c = 2, function1 has run in the cell, c is 2
C15_Witness ==
    /\ last = "DefineC"
    /\ error = "none"
    /\ given.c = 2
    /\ top["c"] = 2
    /\ printed[4] = Line(44, <<10, 11>>)

\* C16: b, defined inside function1, cannot be referred to at the top level:
\* the cell of function1 ends in a NameError at print(b), after the line
\* function1 printed and the two lines that follow its call, and no
\* top-level b exists in any state.
C16_NoTopLevelB ==
    /\ "b" \notin DOMAIN top
    /\ last = "Function1Cell" =>
           /\ error = "NameError"
           /\ printed = <<Line(44, <<10, 11>>), Line(47, <<>>), Line(48, <<>>)>>

\* C16's case: the cell of function1 has run and stopped at print(b)
C16_Witness ==
    /\ last = "Function1Cell"
    /\ error = "NameError"
    /\ "function1" \in defs
    /\ Len(printed) = 3

\* C17 as stated: the cell of function3 completes without error, and a
\* function body reads the top-level d and prints it.
C17_Original ==
    last = "Function3Cell" =>
        /\ error = "none"
        /\ \E i \in 1..Len(printed) : printed[i] = Line(102, <<given.d>>)

\* C18 as stated: run in the notebook, the statements of the cell of
\* function3 have a function body read the top-level d and print it; run as
\* a script, they do not: the read fails there.
C18_Original ==
    /\ last = "Function3Cell" =>
           \E i \in 1..Len(printed) : printed[i] = Line(102, <<given.d>>)
    /\ last = "Script3" =>
           /\ error /= "none"
           /\ \A i \in 1..Len(printed) : printed[i] /= Line(102, <<given.d>>)

\* the integer vectors of the example's length
Vectors == {IntArray(v) : v \in [1..4 -> 1..MaxEntry]}

\* C19: PrintAEqualsB(a, b) prints the equation a = b when the two vectors
\* differ and the boolean True, with no equation, when they are the same
\* element for element: so it does for every two integer vectors, and in
\* the cell of the example the tenth line, of PrintAEqualsB(x, b) with the
\* x solved for, is the equation of the two columns, and the twelfth, of
\* PrintAEqualsB(b, b), is True.
C19_TrueWhenIdentical ==
    (last = "ExampleCell" /\ error = "none") =>
        /\ \A a \in Vectors :
               /\ PrintAEqualsB(a, given.b).shown.k = "true" <=> a = given.b
               /\ a /= given.b =>
                      PrintAEqualsB(a, given.b) =
                          pprint([k   |-> "Eq",
                                  lhs |-> UnevaluatedExpr(Matrix1D(a)),
                                  rhs |-> UnevaluatedExpr(Matrix1D(given.b))])
        /\ printed[10] = pprint([k   |-> "Eq",
                                 lhs |-> UnevaluatedExpr(Matrix1D(lstsq(ExampleA, given.b))),
                                 rhs |-> UnevaluatedExpr(Matrix1D(given.b))])
        /\ printed[12] = pprint([k |-> "true"])

\* C19's case: b = 1, 1, 1, 1 and the x solved for, near 53/535, 62/535,
\* -21/535, 101/535: an equation, then True
C19_Witness ==
    /\ last = "ExampleCell"
    /\ error = "none"
    /\ given.b = IntArray(<<1, 1, 1, 1>>)
    /\ printed[10].shown.k = "Eq"
    /\ printed[10].shown.lhs.arg.rows =
           <<<<Float64Near(53, 535)>>, <<Float64Near(62, 535)>>,
             <<Float64Near(-21, 535)>>, <<Float64Near(101, 535)>>>>
    /\ printed[12].shown.k = "true"

\* C20: in exact arithmetic, for every nonempty _t and every baseline B,
\* with t = B + _t, the first line of the expansion cell,
\* mean(_t^2) + B^2 + 2 B mean(_t), is mean(t^2); the second,
\* B^2 + 2 B mean(_t) + mean(_t)^2, is mean(t)^2; so denom, which is
\* mean(_t^2) - mean(_t)^2, is the naive denominator mean(t^2) - mean(t)^2,
\* and the last line is the slope of LinearFit(t, ph) when _t has two
\* distinct values.
C20_BaselineCancels ==
    (arith = "exact" /\ expanded.k = "printed" /\ _t /= <<>>) =>
        /\ expanded.values[1] = Average(ArrSquare(t))
        /\ expanded.values[2] = Mul(Average(t), Average(t))
        /\ denom = Sub(expanded.values[1], expanded.values[2])
        /\ denom = expanded.values[3]
        /\ Distinct(_t) =>
               /\ IsFinite(expanded.values[4])
               /\ expanded.values[4] \in {r.beta : r \in LinearFit(t, ph)}

\* C20's case: three points at B = 3 with denom 8/9 and slope 1/2
C20_Witness ==
    /\ arith = "exact"
    /\ expanded.k = "printed"
    /\ baseline = Rat(3, 1)
    /\ Len(_t) = 3
    /\ denom = Rat(8, 9)
    /\ expanded.values[4] = Rat(1, 2)

\* the line of the fit lf at the mean xm of the x values is the mean ym of
\* the y values
AtCentroid(lf, xm, ym) == linear(xm, lf[1], lf[2]) = ym

\* C21 as stated: for both estimators and every input with two distinct x
\* values, the fitted line passes through the centroid:
\* linear(mean(x), slope, intercept) = mean(y).
C21_Original ==
    (Fitted /\ Distinct(t)) =>
        /\ AtCentroid(lfBaseline, Average(t), Average(ph))
        /\ AtCentroid(lf2Baseline, Average(t), Average(ph))
        /\ AtCentroid(lfNoBaseline, Average(ArrSubScalar(t, baseline)), Average(ph))

\* the intercept of the fit lf is ym - slope * xm as the arithmetic computes
\* it, and the line at xm is ym: exactly in exact arithmetic; in float64,
\* for a finite fit, to Tol relative to ym or to slope * xm
Centred(lf, xm, ym) ==
    /\ lf[2] = Sub(ym, Mul(lf[1], xm))
    /\ lf[1].k = "rat" => AtCentroid(lf, xm, ym)
    /\ lf[1].k = "fin" =>
           \/ Close(linear(xm, lf[1], lf[2]), ym)
           \/ Within(linear(xm, lf[1], lf[2]), ym, Scaled(Tol, Mul(lf[1], xm)))

\* C21, amended: for both estimators and every input with two distinct x
\* values, the returned intercept is mean(y) - slope * mean(x) as computed;
\* the fitted line passes through the centroid exactly in exact arithmetic,
\* and in float64, when the fit is finite, to a relative 1e-9 of mean(y) or
\* of slope * mean(x), not exactly.
C21_ThroughCentroid ==
    (Fitted /\ Distinct(t)) =>
        /\ Centred(lfBaseline, Average(t), Average(ph))
        /\ Centred(lf2Baseline, Average(t), Average(ph))
        /\ Centred(lfNoBaseline, Average(ArrSubScalar(t, baseline)), Average(ph))

\* C21's case: float64, x = 0, 0, 1 and y = 0, 0, 1 at offset 2^27: the
\* finite fit of LinearFit2 has its line at mean(x) off mean(y)
C21_Witness ==
    /\ arith = "float64" /\ Fitted
    /\ baseline = PowerOfTwo(27)
    /\ _t = <<Zero, Zero, FromInt(1)>>
    /\ ph = <<Zero, Zero, FromInt(1)>>
    /\ IsFinite(lf2Baseline[1])
    /\ ~AtCentroid(lf2Baseline, Average(t), Average(ph))

\* a is below zero
Below0(a) == IF a.k = "rat" THEN a.n < 0 ELSE a.k = "fin" /\ a.s = 1 /\ a.m /= <<>>

\* a is a whole number
Whole(a) == IF a.k = "rat" THEN a.d = 1 ELSE a.k = "fin" /\ (a.m = <<>> \/ a.e >= 0)

\* the x values are whole numbers: the samples, not the tenths or the notebook's
WholeStamps == "t" \in defs /\ Len(t) >= 1 /\ \A i \in 1..Len(t) : Whole(t[i])

\* d[1], d[2]: the denominators LinearFit and LinearFit2 compute for x
Denominators(x) ==
    {<<dn, StableDenominator(ArrSubScalar(x, Average(x)))>> :
         dn \in NaiveDenominator(x, Average(x))}

\* n * sum(x_i^2) - (sum x_i)^2
Spread(x, n) == Sub(Mul(n, Sum(ArrSquare(x))), Mul(Sum(x), Sum(x)))

\* both denominators are non-negative and vanish exactly when x has fewer
\* than two distinct values
ZeroWhenFlat(x, d) ==
    /\ ~Below0(d[1]) /\ ~Below0(d[2])
    /\ IsZero(d[1]) <=> ~Distinct(x)
    /\ IsZero(d[2]) <=> ~Distinct(x)

\* C22 as stated, of the denominators the two functions compute: for whole
\* x of length n >= 1 both are non-negative, both are zero exactly when x
\* has fewer than two distinct values, and so LinearFit divides by zero if
\* and only if LinearFit2 does.
C22_Original ==
    WholeStamps =>
        \A d \in Denominators(t) :
            /\ ZeroWhenFlat(t, d)
            /\ IsZero(d[1]) <=> IsZero(d[2])

\* C22, amended: in exact arithmetic n * sum(x_i^2) - (sum x_i)^2 is
\* non-negative, equals n * sum((x_i - mean(x))^2) and n^2 times the
\* denominator of LinearFit, and is zero exactly when x has fewer than two
\* distinct values, so the two functions divide by zero on the same inputs
\* and then return no number.  In float64 that holds of LinearFit2 and, at
\* the offset 3, of LinearFit; wherever LinearFit2 divides by zero LinearFit
\* does too, and not the other way round.
C22_Denominators ==
    WholeStamps =>
        \A d \in Denominators(t) : \A n \in {Num(arith, Len(t))} :
            /\ arith = "exact" =>
                   /\ ~Below0(Spread(t, n))
                   /\ Spread(t, n) = Mul(n, d[2])
                   /\ Spread(t, n) = Mul(Mul(n, n), d[1])
                   /\ IsZero(Spread(t, n)) <=> ~Distinct(t)
                   /\ ZeroWhenFlat(t, d)
            /\ arith = "float64" =>
                   /\ ~Below0(d[2])
                   /\ IsZero(d[2]) <=> ~Distinct(t)
                   /\ IsZero(d[2]) => IsZero(d[1])
                   /\ baseline = FromInt(3) => ZeroWhenFlat(t, d)
            /\ (Fitted /\ IsZero(d[1])) => ~IsFinite(lfBaseline[1])
            /\ (Fitted /\ IsZero(d[2])) => ~IsFinite(lf2Baseline[1])
            /\ (Fitted /\ ~IsZero(d[2])) => IsFinite(lf2Baseline[1])

\* exact arithmetic, fitted: x = 3 + [0, 1, 2], whose denominators are 2/3
\* and 2 and whose spread is 6
C22_Witness ==
    /\ arith = "exact" /\ Fitted
    /\ baseline = Rat(3, 1)
    /\ _t = <<Rat(0, 1), Rat(1, 1), Rat(2, 1)>>
    /\ Denominators(t) = {<<Rat(2, 3), Rat(2, 1)>>}
    /\ Spread(t, Rat(3, 1)) = Rat(6, 1)
    /\ IsFinite(lfBaseline[1])

\* the fit far = (m2, c2) on x + b against the fit near = (m1, c1) on x:
\* m2 = m1, c2 = c1 - m1 * b, and the two lines agree at every point
Anchored(x, b, near, far) ==
    /\ far[1] = near[1]
    /\ far[2] = Sub(near[2], Mul(near[1], b))
    /\ \A i \in 1..Len(x) :
           linear(Add(x[i], b), far[1], far[2]) = linear(x[i], near[1], near[2])

\* C23: in exact arithmetic, for x with two distinct values, adding the
\* offset B to every x leaves the slope of either function's fit as it is
\* and moves the intercept by -slope * B, so the fit on x + B at x_i + B
\* equals the fit on x at x_i, and the two fit lines the plot cell draws
\* against t coincide.
C23_OffsetMovesAnchor ==
    (arith = "exact" /\ Fitted /\ Distinct(t)) =>
        /\ \A x \in {ArrSubScalar(t, baseline)} :
               /\ ArrAddScalar(baseline, x) = t
               /\ lfNoBaseline \in {Pair(r) : r \in LinearFit(x, ph)}
               /\ Anchored(x, baseline, lfNoBaseline, lfBaseline)
               /\ Anchored(x, baseline, Pair(LinearFit2(x, ph)), lf2Baseline)
        /\ chart.k = "drawn" => chart.classical = chart.alternative

\* exact arithmetic, plotted: x = [0, 1, 2] and B = 3, slope 1/2 at both
\* anchors, the intercept with the offset 3/2 below the one without it
C23_Witness ==
    /\ arith = "exact" /\ Fitted /\ chart.k = "drawn"
    /\ baseline = Rat(3, 1)
    /\ _t = <<Rat(0, 1), Rat(1, 1), Rat(2, 1)>>
    /\ lfNoBaseline[1] = Rat(1, 2)
    /\ lfBaseline[1] = Rat(1, 2)
    /\ lfBaseline[2] = Sub(lfNoBaseline[2], Rat(3, 2))
    /\ chart.classical = chart.alternative
====
